---- MODULE Spec2Model ----
(***************************************************************************)
(* Model of the /fetch pagination service (src/src/main.rs).               *)
(*                                                                         *)
(* One shared AppState behind a std::sync::Mutex; every request runs       *)
(* fetch_handler.  usize is modelled with UsizeBits bits; whether integer  *)
(* overflow panics (debug profile) or wraps (release profile) is fixed at  *)
(* build time and is chosen in Init.  A panic while the guard is held      *)
(* poisons the mutex, and lock().unwrap() panics on a poisoned mutex.      *)
(***************************************************************************)
EXTENDS Integers, Sequences, FiniteSets, TLC

\* ------------------------------------------------------------------ bounds
UsizeBits == 4
MaxLen == 3
MaxDefault == 2
NumReqs == 2

UsizeMod == 2 ^ UsizeBits
UsizeMax == UsizeMod - 1

Reqs == 1 .. NumReqs

\* ------------------------------------------------------- strings and usize
Digits == <<"0", "1", "2", "3", "4", "5", "6", "7", "8", "9">>

AllTokens == <<"a", "b", "c", "d", "e", "f", "g", "h">>

Comma == ","

Min(a, b) == IF a <= b THEN a ELSE b

RECURSIVE ToDecimal(_)
ToDecimal(k) ==
    IF k < 10 THEN <<Digits[k + 1]>>
    ELSE ToDecimal(k \div 10) \o <<Digits[(k % 10) + 1]>>

IsDigit(c) == \E i \in 1 .. 10 : Digits[i] = c

DigitVal(c) == (CHOOSE i \in 1 .. 10 : Digits[i] = c) - 1

None == [ok |-> FALSE, val |-> 0]

Some(v) == [ok |-> TRUE, val |-> v]

\* checked accumulation of the digits, left to right
RECURSIVE ParseDigits(_, _)
ParseDigits(s, acc) ==
    IF s = <<>> THEN Some(acc)
    ELSE IF ~IsDigit(Head(s)) THEN None
    ELSE LET v == acc * 10 + DigitVal(Head(s))
         IN  IF v > UsizeMax THEN None ELSE ParseDigits(Tail(s), v)

\* a parser that drops whatever is not a digit instead of failing
ParseUsize_Lenient(s) ==
    IF s = <<>> THEN None ELSE ParseDigits(SelectSeq(s, IsDigit), 0)

\* str::parse::<usize>(): empty, a lone sign, a '-' or any non-digit, or a
\* value above usize::MAX is an Err; one leading '+' is accepted.
ParseUsize(s) ==
    IF s = <<>> THEN None
    ELSE IF Head(s) = "+" THEN (IF Len(s) = 1 THEN None ELSE ParseDigits(Tail(s), 0))
    ELSE ParseDigits(s, 0)

\* ---------------------------------------------------------------- variables
VARIABLES
    state,            \* AppState behind the mutex
    mutex,            \* [holder, poisoned] of the std::sync::Mutex
    overflow_checks,  \* build profile: TRUE = overflow panics, FALSE = wraps
    pc,               \* position of each request in fetch_handler
    params,           \* the n query parameter of each request
    local,            \* the handler's locals
    resp,             \* what the client of each request received
    lockOrder         \* requests in the order they acquired the lock

vars == <<state, mutex, overflow_checks, pc, params, local, resp, lockOrder>>

\* ------------------------------------------------------- usize arithmetic
Add(a, b) == [ok |-> (a + b <= UsizeMax) \/ ~overflow_checks,
              val |-> (a + b) % UsizeMod]

Sub(a, b) == [ok |-> (a >= b) \/ ~overflow_checks,
              val |-> (a - b + UsizeMod) % UsizeMod]

Div(a, b) == IF b = 0 THEN None ELSE Some(a \div b)

SaturatingSub(a, b) == IF a >= b THEN a - b ELSE 0

\* ------------------------------------------------------------ sequences
Skip(s, k) == SubSeq(s, k + 1, Len(s))

Take(s, k) == SubSeq(s, 1, Min(k, Len(s)))

RECURSIVE Join(_)
Join(l) ==
    IF l = <<>> THEN <<>>
    ELSE IF Len(l) = 1 THEN <<l[1]>>
    ELSE <<l[1], Comma>> \o Join(Tail(l))

\* ------------------------------------------------------------- responses
NoResponse == [status |-> 0, numbers |-> <<>>, message |-> "", count |-> 0]

ExhaustedResponse ==
    [status |-> 200, numbers |-> <<>>, message |-> "No more numbers", count |-> 0]

\* ------------------------------------------------------------- parameters
Absent == [present |-> FALSE, value |-> <<>>]

Given(s) == [present |-> TRUE, value |-> s]

ParamStrings ==
    {ToDecimal(k) : k \in {0, 1, 2, UsizeMax, UsizeMod}}
        \cup {<<"a", "b", "c">>, <<"1", "a">>, <<"-", "1">>, <<"+", "1">>}

Params == {Absent} \cup {Given(s) : s \in ParamStrings}

\* start, poisoned and after record what the request met and left behind:
\* start_index when it took the lock, whether lock() returned a poison error,
\* and start_index when it let go of the lock
NoLocal == [n |-> 0, pages_remaining |-> 0, end_index |-> 0, response |-> NoResponse,
            start |-> 0, poisoned |-> FALSE, after |-> 0]

\* ------------------------------------------------------------------ Init
\* a text file as read_to_string sees it: missing, or its lines
Missing == [exists |-> FALSE, lines |-> <<>>]

File(ls) == [exists |-> TRUE, lines |-> ls]

NumbersFiles == {Missing} \cup {File(SubSeq(AllTokens, 1, len)) : len \in 0 .. MaxLen}

MessageFiles == {Missing, File(<<"hello", "bye">>)}

\* lines 138-142
load_numbers(f) == IF f.exists THEN f.lines ELSE <<>>

\* lines 145-150
load_message(f) ==
    IF f.exists /\ f.lines # <<>> THEN Head(f.lines) ELSE "No message found"

\* lines 123-135
load_state(nf, mf, dfc) ==
    [numbers |-> load_numbers(nf), message |-> load_message(mf), start_index |-> 0,
     default_fetch_count |-> dfc, test_number |-> "T"]

Init ==
    /\ \E nf \in NumbersFiles, mf \in MessageFiles, dfc \in 1 .. MaxDefault :
          state = load_state(nf, mf, dfc)
    /\ mutex = [holder |-> 0, poisoned |-> FALSE]
    /\ overflow_checks \in BOOLEAN
    /\ pc = [r \in Reqs |-> "idle"]
    /\ params = [r \in Reqs |-> Absent]
    /\ local = [r \in Reqs |-> NoLocal]
    /\ resp = [r \in Reqs |-> NoResponse]
    /\ lockOrder = <<>>

\* ---------------------------------------------------------------- actions
\* a client sends GET /fetch with some (or no) n; requests are numbered in
\* the order they arrive
Arrive(r) ==
    /\ pc[r] = "idle"
    /\ \A q \in Reqs : q < r => pc[q] # "idle"
    /\ \E p \in Params : params' = [params EXCEPT ![r] = p]
    /\ pc' = [pc EXCEPT ![r] = "waiting"]
    /\ UNCHANGED <<state, mutex, overflow_checks, local, resp, lockOrder>>

\* a lock that does not wait for its holder
Lock_Unguarded(r) ==
    /\ pc[r] = "waiting"
    /\ lockOrder' = Append(lockOrder, r)
    /\ local' = [local EXCEPT ![r] =
           [NoLocal EXCEPT !.start = state.start_index, !.after = state.start_index,
                           !.poisoned = mutex.poisoned]]
    /\ IF mutex.poisoned
       THEN /\ pc' = [pc EXCEPT ![r] = "panicked"]
            /\ UNCHANGED mutex
       ELSE /\ pc' = [pc EXCEPT ![r] = "locked"]
            /\ mutex' = [mutex EXCEPT !.holder = r]
    /\ UNCHANGED <<state, overflow_checks, params, resp>>

\* line 61: state.lock().unwrap()
Lock(r) ==
    /\ pc[r] = "waiting"
    /\ mutex.holder = 0
    /\ lockOrder' = Append(lockOrder, r)
    /\ local' = [local EXCEPT ![r] =
           [NoLocal EXCEPT !.start = state.start_index, !.after = state.start_index,
                           !.poisoned = mutex.poisoned]]
    /\ IF mutex.poisoned
       THEN /\ pc' = [pc EXCEPT ![r] = "panicked"]
            /\ UNCHANGED mutex
       ELSE /\ pc' = [pc EXCEPT ![r] = "locked"]
            /\ mutex' = [mutex EXCEPT !.holder = r]
    /\ UNCHANGED <<state, overflow_checks, params, resp>>

\* lines 65-68
ResolveN(p, st) ==
    LET parsed == IF p.present THEN ParseUsize(p.value) ELSE None
    IN  IF parsed.ok THEN parsed.val ELSE st.default_fetch_count

\* lines 71-73: ok is FALSE when the arithmetic panics
Diagnostics(st, n) ==
    LET total_items == Len(st.numbers)
        quot == Div(st.start_index, n)
        current_page == Add(quot.val, 1)
        items_remaining == SaturatingSub(total_items, st.start_index)
        sum == Add(items_remaining, n)
        dec == Sub(sum.val, 1)
        pages_remaining == Div(dec.val, n)
    IN  [ok |-> quot.ok /\ current_page.ok /\ sum.ok /\ dec.ok /\ pages_remaining.ok,
         pages_remaining |-> pages_remaining.val]

\* the panicking thread unwinds: the guard is dropped and marks the mutex
\* poisoned, the connection is closed without a response
Panic(r) ==
    /\ pc' = [pc EXCEPT ![r] = "panicked"]
    /\ mutex' = [holder |-> 0, poisoned |-> TRUE]

\* lines 62-73
Resolve(r) ==
    /\ pc[r] = "locked"
    /\ LET n == ResolveN(params[r], state)
           d == Diagnostics(state, n)
       IN  IF d.ok
           THEN /\ pc' = [pc EXCEPT ![r] = "resolved"]
                /\ local' = [local EXCEPT ![r].n = n,
                                          ![r].pages_remaining = d.pages_remaining]
                /\ UNCHANGED mutex
           ELSE /\ Panic(r)
                /\ UNCHANGED local
    /\ UNCHANGED <<state, overflow_checks, params, resp, lockOrder>>

\* lines 75-82
Exhausted(r) ==
    /\ pc[r] = "resolved"
    /\ state.start_index >= Len(state.numbers)
    /\ resp' = [resp EXCEPT ![r] = ExhaustedResponse]
    /\ pc' = [pc EXCEPT ![r] = "done"]
    /\ mutex' = [mutex EXCEPT !.holder = 0]
    /\ UNCHANGED <<state, overflow_checks, params, local, lockOrder>>

\* a page read from the head of the sequence, the skip forgotten
PageTokens_NoSkip(st, n) == <<st.test_number>> \o Take(st.numbers, n)

\* lines 85-93
PageTokens(st, n) == <<st.test_number>> \o Take(Skip(st.numbers, st.start_index), n)

\* a response built without the stored message
BuildResponse_NoMessage(st, n) ==
    LET numbers == PageTokens(st, n)
    IN  [status |-> 200, numbers |-> Join(numbers), message |-> "No message found",
         count |-> Len(numbers)]

\* lines 95-99
BuildResponse(st, n) ==
    LET numbers == PageTokens(st, n)
    IN  [status |-> 200, numbers |-> Join(numbers), message |-> st.message,
         count |-> Len(numbers)]

\* line 84
EndIndex(st, n) ==
    LET sum == Add(st.start_index, n)
    IN  [ok |-> sum.ok, val |-> Min(sum.val, Len(st.numbers))]

\* lines 84-107
ReadPage(r) ==
    /\ pc[r] = "resolved"
    /\ state.start_index < Len(state.numbers)
    /\ LET end_index == EndIndex(state, local[r].n)
           logged == Sub(local[r].pages_remaining, 1)
       IN  IF end_index.ok /\ logged.ok
           THEN /\ pc' = [pc EXCEPT ![r] = "paged"]
                /\ local' = [local EXCEPT ![r].end_index = end_index.val,
                                          ![r].response = BuildResponse(state, local[r].n)]
                /\ UNCHANGED mutex
           ELSE /\ Panic(r)
                /\ UNCHANGED local
    /\ UNCHANGED <<state, overflow_checks, params, resp, lockOrder>>

\* a cursor advance that also drops the tokens handed out from the deque
Advance_Drain(r) ==
    /\ pc[r] = "paged"
    /\ state' = [state EXCEPT !.start_index = local[r].end_index,
                              !.numbers = Skip(state.numbers, local[r].end_index)]
    /\ local' = [local EXCEPT ![r].after = local[r].end_index]
    /\ resp' = [resp EXCEPT ![r] = local[r].response]
    /\ pc' = [pc EXCEPT ![r] = "done"]
    /\ mutex' = [mutex EXCEPT !.holder = 0]
    /\ UNCHANGED <<overflow_checks, params, lockOrder>>

\* lines 109-110
Advance(r) ==
    /\ pc[r] = "paged"
    /\ state' = [state EXCEPT !.start_index = local[r].end_index]
    /\ local' = [local EXCEPT ![r].after = local[r].end_index]
    /\ resp' = [resp EXCEPT ![r] = local[r].response]
    /\ pc' = [pc EXCEPT ![r] = "done"]
    /\ mutex' = [mutex EXCEPT !.holder = 0]
    /\ UNCHANGED <<overflow_checks, params, lockOrder>>

Next ==
    \E r \in Reqs :
        \/ Arrive(r)
        \/ Lock(r)
        \/ Resolve(r)
        \/ Exhausted(r)
        \/ ReadPage(r)
        \/ Advance(r)

Spec == Init /\ [][Next]_vars

\* every handler step is taken once it can be; the mutex hands the lock to
\* every waiter that keeps asking
FairSpec ==
    /\ Spec
    /\ \A r \in Reqs :
          /\ SF_vars(Lock(r))
          /\ WF_vars(Resolve(r))
          /\ WF_vars(Exhausted(r))
          /\ WF_vars(ReadPage(r))
          /\ WF_vars(Advance(r))

\* fetch_handler from lock to return, run without interruption on store st
\* (not poisoned) with parameter p
FetchOutcome(st, p) ==
    LET n == ResolveN(p, st)
        d == Diagnostics(st, n)
        end_index == EndIndex(st, n)
        logged == Sub(d.pages_remaining, 1)
    IN  IF ~d.ok
        THEN [panicked |-> TRUE, response |-> NoResponse, start_index |-> st.start_index]
        ELSE IF st.start_index >= Len(st.numbers)
        THEN [panicked |-> FALSE, response |-> ExhaustedResponse,
              start_index |-> st.start_index]
        ELSE IF ~(end_index.ok /\ logged.ok)
        THEN [panicked |-> TRUE, response |-> NoResponse, start_index |-> st.start_index]
        ELSE [panicked |-> FALSE, response |-> BuildResponse(st, n),
              start_index |-> end_index.val]

\* ====================================================================
\* Properties
\* ====================================================================
Terminated(r) == pc[r] \in {"done", "panicked"}

\* what request r did, seen from outside
Observed(r) ==
    [panicked |-> pc[r] = "panicked", response |-> resp[r],
     start_index |-> local[r].after]

\* the store as request r found it
PreState(r) == [state EXCEPT !.start_index = local[r].start]

\* the tokens of a comma-joined string
Split(s) == SelectSeq(s, LAMBDA x : x # Comma)

\* decimal integers as written: an optional sign and at least one digit
Unsigned(s) == IF s # <<>> /\ Head(s) \in {"+", "-"} THEN Tail(s) ELSE s

IsInteger(s) ==
    /\ Unsigned(s) # <<>>
    /\ \A i \in 1 .. Len(Unsigned(s)) : IsDigit(Unsigned(s)[i])

RECURSIVE DigitsValue(_, _)
DigitsValue(s, acc) ==
    IF s = <<>> THEN acc ELSE DigitsValue(Tail(s), acc * 10 + DigitVal(Head(s)))

IntegerValue(s) ==
    IF Head(s) = "-" THEN 0 - DigitsValue(Unsigned(s), 0) ELSE DigitsValue(Unsigned(s), 0)

ValidPositive(p) ==
    /\ p.present
    /\ IsInteger(p.value)
    /\ IntegerValue(p.value) > 0
    /\ IntegerValue(p.value) <= UsizeMax

NonPositive(p) == p.present /\ IsInteger(p.value) /\ IntegerValue(p.value) <= 0

Malformed(p) == p.present /\ ~IsInteger(p.value)

\* C1: start_index stays within 0 .. len(numbers) and no step of any request
\* makes it smaller.
C1_CursorBoundedMonotone ==
    [][/\ state'.start_index >= state.start_index
       /\ 0 <= state'.start_index
       /\ state'.start_index <= Len(state'.numbers)]_vars

RECURSIVE PagesOf(_)
PagesOf(order) ==
    IF order = <<>> THEN <<>>
    ELSE (IF pc[Head(order)] = "done" /\ resp[Head(order)].count > 0
          THEN Tail(Split(resp[Head(order)].numbers))
          ELSE <<>>) \o PagesOf(Tail(order))

\* C2: the page tokens of the non-exhausted responses, taken in lock order,
\* concatenate to exactly numbers[0 : start_index].
C2_NoOverlapNoGap ==
    PagesOf(lockOrder) = SubSeq(state.numbers, 1, state.start_index)

\* C3: a request that finds the store exhausted gets the sentinel response
\* and leaves start_index as it was, whatever n it carries.
C3_ExhaustedTerminal ==
    \A r \in Reqs :
        (Terminated(r) /\ local[r].start >= Len(state.numbers))
            => /\ resp[r] = ExhaustedResponse
               /\ local[r].after = local[r].start

\* C4: a request with a valid positive n on a non-exhausted store returns
\* min(n, len - start_index) + 1 tokens, count says so, and start_index
\* advances by min(n, len - start_index).
C4_PageSize ==
    \A r \in Reqs :
        (Terminated(r) /\ ValidPositive(params[r])
                       /\ local[r].start < Len(state.numbers))
            => LET k == Min(IntegerValue(params[r].value),
                            Len(state.numbers) - local[r].start)
               IN  /\ pc[r] = "done"
                   /\ Len(Split(resp[r].numbers)) = k + 1
                   /\ resp[r].count = k + 1
                   /\ local[r].after = local[r].start + k

\* C5: a non-exhausted response lists the test token first and then
\* numbers[start_index : min(start_index + n, len)] in sequence order.
C5_PageContent ==
    \A r \in Reqs :
        (pc[r] = "done" /\ local[r].start < Len(state.numbers))
            => Split(resp[r].numbers) =
                   <<state.test_number>> \o
                   SubSeq(state.numbers, local[r].start + 1,
                          Min(local[r].start + local[r].n, Len(state.numbers)))

C5_Witness ==
    \E r \in Reqs :
        /\ pc[r] = "done"
        /\ local[r].start > 0
        /\ resp[r].count >= 3

\* C6: every request ends with an HTTP 200 response.
C6_Always200 ==
    \A r \in Reqs : Terminated(r) => resp[r].status = 200

\* C7: a request whose n is 0 or negative is served exactly as the same
\* request without n.
C7_NonPositiveUsesDefault ==
    \A r \in Reqs :
        (Terminated(r) /\ ~local[r].poisoned /\ NonPositive(params[r]))
            => Observed(r) = FetchOutcome(PreState(r), Absent)

\* C8: every request that arrives eventually gets its response.
C8_NoStarvation ==
    \A r \in Reqs : (pc[r] = "waiting") ~> (pc[r] = "done")

\* C9: a request whose n is not an integer gets the response, and leaves the
\* start_index, of the same request without n.
C9_MalformedAsAbsent ==
    \A r \in Reqs :
        (Terminated(r) /\ ~local[r].poisoned /\ Malformed(params[r]))
            => Observed(r) = FetchOutcome(PreState(r), Absent)

C9_Witness ==
    \E r \in Reqs :
        /\ pc[r] = "done"
        /\ Malformed(params[r])
        /\ resp[r].count >= 2
        /\ local[r].after > local[r].start

\* C10: of two consecutive identical requests on a store that was not
\* exhausted, the first advances start_index and the second returns a later
\* range or the exhausted sentinel.
C10_NoRepeatedPage ==
    \A i \in 1 .. Len(lockOrder) - 1 :
        LET a == lockOrder[i]
            b == lockOrder[i + 1]
        IN  (Terminated(a) /\ Terminated(b) /\ params[a] = params[b]
                           /\ local[a].start < Len(state.numbers))
                => /\ local[a].after > local[a].start
                   /\ \/ resp[b] = ExhaustedResponse
                      \/ /\ pc[b] = "done"
                         /\ resp[b].count > 0
                         /\ local[b].start >= local[a].after

\* C11 as claimed: the message of every response, exhausted or not, is the
\* message loaded at startup.
C11_MessageEchoedAlways ==
    \A r \in Reqs : pc[r] = "done" => resp[r].message = state.message

\* C11 amended: the message of every non-exhausted response is the message
\* loaded at startup; the exhausted response carries "No more numbers".
C11_MessageEchoed ==
    \A r \in Reqs :
        pc[r] = "done"
            => resp[r].message = (IF local[r].start < Len(state.numbers)
                                  THEN state.message
                                  ELSE "No more numbers")

C11_Witness ==
    \E r, q \in Reqs :
        /\ pc[r] = "done" /\ local[r].start < Len(state.numbers)
        /\ resp[r].message = "hello"
        /\ pc[q] = "done" /\ local[q].start >= Len(state.numbers)

\* C12: with an empty token sequence every request gets the exhausted
\* sentinel and start_index stays 0.
C12_EmptySourceExhausted ==
    \A r \in Reqs :
        (Terminated(r) /\ state.numbers = <<>>)
            => /\ resp[r] = ExhaustedResponse
               /\ state.start_index = 0

\* n so large that start_index + n or items_remaining + n - 1 leaves usize
Oversized(r) ==
    LET n == IntegerValue(params[r].value)
    IN  \/ local[r].start + n > UsizeMax
        \/ (Len(state.numbers) - local[r].start) + n - 1 > UsizeMax

\* C13: a positive n up to usize::MAX whose page or diagnostic arithmetic
\* leaves the word range is still served: the response holds the test token
\* and all remaining tokens, start_index becomes len(numbers), the request
\* does not abort.
C13_LargeNSafe ==
    \A r \in Reqs :
        (Terminated(r) /\ ~local[r].poisoned /\ ValidPositive(params[r])
                       /\ local[r].start < Len(state.numbers) /\ Oversized(r))
            => /\ pc[r] = "done"
               /\ Split(resp[r].numbers) =
                      <<state.test_number>> \o Skip(state.numbers, local[r].start)
               /\ local[r].after = Len(state.numbers)

InHandler(r) == pc[r] \in {"locked", "resolved", "paged"}

\* C14: a handler between lock and return is the holder of the mutex, so at
\* most one handler is there at a time, and start_index is still the value it
\* read when it took the lock until it writes end_index itself.
C14_CriticalSection ==
    /\ \A r \in Reqs :
          InHandler(r) => /\ mutex.holder = r
                          /\ state.start_index = local[r].start
    /\ Cardinality({r \in Reqs : InHandler(r)}) <= 1

C14_Witness ==
    \E r, q \in Reqs :
        /\ pc[r] = "paged"
        /\ local[r].end_index > local[r].start
        /\ pc[q] = "waiting"

\* a finished call that met a non-exhausted store with a positive page size
PositiveCall(r) ==
    /\ Terminated(r)
    /\ ~local[r].poisoned
    /\ local[r].start < Len(state.numbers)
    /\ ResolveN(params[r], state) > 0

\* C15: every non-exhausted call with a positive effective page size
\* advances start_index by at least 1, so once len(numbers) such calls have
\* finished the store is exhausted.
C15_EveryCallAdvances ==
    /\ \A r \in Reqs : PositiveCall(r) => local[r].after >= local[r].start + 1
    /\ (/\ \A r \in Reqs : ~InHandler(r)
        /\ Cardinality({r \in Reqs : PositiveCall(r)}) >= Len(state.numbers))
           => state.start_index >= Len(state.numbers)

\* C16: no step changes numbers, message, default_fetch_count or
\* test_number, and the step that ends a request on the exhausted path or
\* with a panic leaves start_index unchanged too.
C16_Frame ==
    [][/\ state'.numbers = state.numbers
       /\ state'.message = state.message
       /\ state'.default_fetch_count = state.default_fetch_count
       /\ state'.test_number = state.test_number
       /\ \A r \in Reqs :
             (/\ pc[r] # pc'[r]
              /\ \/ pc'[r] = "panicked"
                 \/ pc'[r] = "done" /\ resp'[r] = ExhaustedResponse)
                => state' = state]_vars

C16_Witness ==
    \E r, q \in Reqs :
        /\ pc[r] = "done"
        /\ local[r].after > local[r].start
        /\ pc[q] = "done"
        /\ resp[q] = ExhaustedResponse
        /\ state.numbers # <<>>

====
